---- MODULE Spec2Model ----
(***************************************************************************)
(* Repository monitoring engine: MonitorManager (monitor.py), the store    *)
(* (database.py), the remote source (github_api.py) and the command        *)
(* handlers that call into them (bot.py).                                  *)
(*                                                                         *)
(* Threads run handlers: "timer" (the monitoring loop main() starts),       *)
(* "timer2" (the loop of a further start_monitoring call) and "cmd" (the    *)
(* thread serving inbound commands).  Every Database method takes the      *)
(* store lock, so each store call is one atomic step; a remote call and a  *)
(* send_message call are one step each.                                    *)
(***************************************************************************)
EXTENDS Integers, Sequences, FiniteSets, Bags, TLC

VARIABLES
    now,            \* wall clock, in hours
    remote,         \* remote[r]: the commits of repository r on the host
    repositories,   \* table repositories, rows in rowid order
    commit_history, \* table commit_history: a bag of <<repo, sha>> rows
    th,             \* th[p]: position and local variables of thread p
    notified,       \* history: bag of <<chat, repo, sha>> passed to the formatter
    summaries,      \* history: bag of <<chat, repo, extra_count>> summary messages
    faulted,        \* history: the faults injected, <<who, repo, kind>>
    faults,         \* faults injected so far
    adds,           \* /add commands served so far
    monitor,        \* the MonitorManager: running flag, live loop threads, calls made
    main,           \* position of main(): "test", "start", "polling" or "exited"
    users           \* table users: users[c] is the language of chat c, or NoUser

vars == <<now, remote, repositories, commit_history, th,
          notified, summaries, faulted, faults, adds, monitor, main, users>>

store == <<repositories, commit_history>>

----------------------------------------------------------------------------
(* Universe and bounds *)

Chats == {"X", "Y"}             \* the chats of Config.ADMIN_CHAT_ID
Callers == Chats \cup {"Z"}     \* every chat that can reach the bot
Langs == {"en", "fa"}           \* language codes of the set_lang_ buttons
DEFAULT_LANGUAGE == "en"
NoUser == "none"                \* no row in users for the chat
RepoNames == <<"A", "B">>      \* repository names in ORDER BY order
Repos == {RepoNames[k] : k \in 1..Len(RepoNames)}
Loops == {"timer", "timer2"}   \* threads running monitoring_loop
Procs == Loops \cup {"cmd"}

MaxPush   == 1      \* commits pushed to the remote while handlers overlap
MaxPushSeq == 2     \* commits pushed to the remote when handlers run in turn
MaxBatch  == 7      \* commits already on the remote in InitBatch
MaxFaults == 1      \* injected faults (failed fetch, failed send, crash)
MaxTicks  == 1      \* clock advances
MaxAdds   == 2      \* /add commands
MaxPerm   == 3      \* largest fetch result whose every order is enumerated
MaxRestart == 2     \* commits already on the remote in InitRestart
MaxStarts == 2      \* start_monitoring calls
MaxOld    == 3      \* commits already on the remote in InitLookback
MaxStops  == 1      \* stop_monitoring calls
MaxOver   == 1      \* commits beyond one page already on the remote in InitPage

LOOKBACK_HOURS == 24    \* timedelta(hours=24)
PER_PAGE       == 20    \* params per_page
NOTIFY_CAP     == 5     \* commits[:5], len(commits) > 5

NULL == 0               \* SQL NULL / Python None in a sha or date column
NoRepo == "-"

StartTime == LOOKBACK_HOURS + MaxBatch + 2

Shas == 1..(IF MaxBatch > MaxPush THEN MaxBatch ELSE MaxPush)

Min(a, b) == IF a < b THEN a ELSE b

----------------------------------------------------------------------------
(* Pure helpers *)

Range(s) == {s[k] : k \in 1..Len(s)}

\* s[j] comes before s[k] in the sorted list: a greater date, or an equal
\* date and an earlier place in s (the sort is stable)
SortsBefore(s, j, k) ==
    s[j].date > s[k].date \/ (s[j].date = s[k].date /\ j < k)

\* commits.sort(key=lambda x: x['date'], reverse=True): a stable sort
SortByDateDesc(s) ==
    [p \in 1..Len(s) |->
        s[CHOOSE k \in 1..Len(s) :
              Cardinality({j \in 1..Len(s) : SortsBefore(s, j, k)}) = p - 1]]

Newer(a, b) == a.date > b.date \/ (a.date = b.date /\ a.sha > b.sha)

\* the commits of S from the newest to the oldest
NewestFirst(S) ==
    [k \in 1..Cardinality(S) |->
        CHOOSE x \in S : Cardinality({y \in S : Newer(y, x)}) = k - 1]

\* the commits of S from the oldest to the newest
OldestFirst(S) ==
    [k \in 1..Cardinality(S) |->
        CHOOSE x \in S : Cardinality({y \in S : Newer(x, y)}) = k - 1]

Perms(S) ==
    {f \in [1..Cardinality(S) -> S] : \A a, b \in 1..Cardinality(S) : a # b => f[a] # f[b]}

----------------------------------------------------------------------------
(* The store: database.py.  last_check, repo_url and branch are written but *)
(* never read by the engine and are left out of the rows.                    *)

Row(c, r) ==
    [chat_id |-> c, repo_full_name |-> r,
     last_commit_sha |-> NULL, last_commit_date |-> NULL]

RowsOf(rows, r) == SelectSeq(rows, LAMBDA row : row.repo_full_name = r)

\* INSERT OR REPLACE in place of INSERT OR IGNORE
add_user_replace(u, c, language) == [u EXCEPT ![c] = language]

\* INSERT OR IGNORE INTO users: chat_id is the primary key, an existing row
\* is kept as it is.  add_repository runs the same statement after its
\* SELECT 1 FROM users found no row
add_user(u, c, language) ==
    IF u[c] = NoUser THEN [u EXCEPT ![c] = language] ELSE u

\* SELECT language FROM users WHERE chat_id = ?: None when there is no row
get_user_language(u, c) == u[c]

\* INSERT the row when there is none, UPDATE users SET language otherwise
update_user_language(u, c, language) == [u EXCEPT ![c] = language]

\* the users table after the chats of rows have been added with add_repository
UsersOf(rows) ==
    [c \in Callers |->
        IF \E k \in 1..Len(rows) : rows[k].chat_id = c THEN DEFAULT_LANGUAGE ELSE NoUser]

\* INSERT INTO commit_history: a new row, whatever the table holds
log_commit(hist, r, commit) == hist (+) SetToBag({<<r, commit.sha>>})

\* SELECT 1 FROM commit_history WHERE repo_full_name = ? AND commit_sha = ?
is_commit_logged(hist, r, sha) == CopiesIn(<<r, sha>>, hist) > 0

\* SELECT last_commit_date ... WHERE repo_full_name = ?; fetchone().  The
\* value round-trips through the TIMESTAMP column unchanged (strptime of the
\* stored '%Y-%m-%d %H:%M:%S' text), NULL or no row gives None.
get_last_commit_date(rows, r) ==
    IF RowsOf(rows, r) = <<>> THEN NULL ELSE RowsOf(rows, r)[1].last_commit_date

\* UPDATE repositories SET ... WHERE repo_full_name = ?: every row of the repo
update_last_commit(rows, r, sha, date) ==
    [k \in 1..Len(rows) |->
        IF rows[k].repo_full_name = r
        THEN [rows[k] EXCEPT !.last_commit_sha = sha, !.last_commit_date = date]
        ELSE rows[k]]

add_repository_insert_only(rows, c, r) == rows \o <<Row(c, r)>>

\* DELETE the (chat, repo) row, INSERT a fresh one with NULL watermark
add_repository(rows, c, r) ==
    SelectSeq(rows, LAMBDA row : ~(row.chat_id = c /\ row.repo_full_name = r))
        \o <<Row(c, r)>>

remove_repository(rows, c, r) ==
    SelectSeq(rows, LAMBDA row : ~(row.chat_id = c /\ row.repo_full_name = r))

get_first_subscriber(rows, r) ==
    IF RowsOf(rows, r) = <<>> THEN <<>> ELSE <<RowsOf(rows, r)[1].chat_id>>

get_all_chats(rows, r) == [k \in 1..Len(rows) |-> rows[k].chat_id]

\* SELECT chat_id FROM repositories WHERE repo_full_name = ?; fetchall()
get_repo_subscribers(rows, r) ==
    [k \in 1..Len(RowsOf(rows, r)) |-> RowsOf(rows, r)[k].chat_id]

\* SELECT DISTINCT repo_full_name, ...: each name once, in order of first row
get_all_monitored_repos(rows) ==
    LET first == {k \in 1..Len(rows) :
                    \A j \in 1..(k - 1) : rows[j].repo_full_name # rows[k].repo_full_name}
        keep  == [k \in 1..Len(rows) |-> k \in first]
        RECURSIVE Names(_)
        Names(k) == IF k > Len(rows) THEN <<>>
                    ELSE (IF keep[k] THEN <<rows[k].repo_full_name>> ELSE <<>>)
                         \o Names(k + 1)
    IN  Names(1)

\* SELECT * FROM repositories WHERE chat_id = ? ORDER BY repo_full_name
get_user_repos(rows, c) ==
    SelectSeq(RepoNames,
              LAMBDA r : \E k \in 1..Len(rows) :
                            rows[k].chat_id = c /\ rows[k].repo_full_name = r)

----------------------------------------------------------------------------
(* The remote source: github_api.py *)

\* the commits the host returns for ?since=: those at or after the bound
Candidates(r, since) ==
    {c \in remote[r] : since = NULL \/ c.date >= since}

\* per_page: PER_PAGE commits of a longer history, the most recent ones
Pages(S) ==
    {{x \in S : Cardinality({y \in S : Newer(y, x)}) < PER_PAGE}}

\* the order of the returned list is the host's; author dates need not follow it
Orders(S) ==
    IF Cardinality(S) <= MaxPerm THEN Perms(S)
    ELSE {NewestFirst(S), OldestFirst(S)}

\* GitHubAPI.get_latest_commits on a 200 response: parsed_commits
get_latest_commits(r, since) ==
    IF Cardinality(Candidates(r, since)) <= PER_PAGE
    THEN Orders(Candidates(r, since))
    ELSE UNION {Orders(T) : T \in Pages(Candidates(r, since))}

----------------------------------------------------------------------------
(* Threads *)

Idle ==
    [pc |-> "idle", queue |-> <<>>, cur |-> NoRepo, since |-> NULL,
     commits |-> <<>>, new_commits |-> <<>>, i |-> 0,
     subscribers |-> <<>>, si |-> 0,
     failed |-> {},     \* history: repos whose fetch failed in this handler run
     prior |-> <<>>]    \* history: the row an /add command replaced, if any

\* the for-loop over repos (check_all_repositories, handle_check): the next
\* repository's check_repository call, or the end of the handler
NextRepo(t) ==
    IF t.queue = <<>> THEN Idle
    ELSE [Idle EXCEPT !.pc = "getdate", !.cur = Head(t.queue), !.queue = Tail(t.queue),
                      !.failed = t.failed]

\* for chat_id in subscribers: the next subscriber, or the end of the check
NextSubscriber(t) ==
    IF t.si < Len(t.subscribers)
    THEN [t EXCEPT !.pc = "lang", !.si = @ + 1, !.i = 0]
    ELSE NextRepo(t)

MessagesNoSummary(commits) == Min(Len(commits), NOTIFY_CAP)

\* send_commit_notification: the number of send_message calls for a batch
Messages(commits) ==
    Min(Len(commits), NOTIFY_CAP) + (IF Len(commits) > NOTIFY_CAP THEN 1 ELSE 0)

AfterSendReturns(t) == NextSubscriber(t)

\* after the k-th send_message call of send_commit_notification
AfterSend(t) ==
    IF t.i < Messages(t.new_commits) THEN [t EXCEPT !.i = @ + 1]
    ELSE NextSubscriber(t)

\* the history of what send_commit_notification produced for chat c
Produced(t, c) ==
    IF t.i <= Min(Len(t.new_commits), NOTIFY_CAP)
    THEN /\ notified' = notified (+) SetToBag({<<c, t.cur, t.new_commits[t.i].sha>>})
         /\ UNCHANGED summaries
    ELSE /\ summaries' = summaries (+)
                            SetToBag({<<c, t.cur, Len(t.new_commits) - NOTIFY_CAP>>})
         /\ UNCHANGED notified

----------------------------------------------------------------------------
(* BotHandler: the checks every command handler starts with *)

\* return chat_id in Config.ADMIN_CHAT_ID
check_admin(c) == c \in Chats

\* BotHandler.get_user_language: a chat without a row is added with the
\* default language
EnsureUser(u, c) ==
    IF get_user_language(u, c) = NoUser THEN add_user(u, c, DEFAULT_LANGUAGE) ELSE u

----------------------------------------------------------------------------
(* MonitorManager.check_all_repositories and BotHandler.handle_check *)

LoopTestAlways(m) == TRUE

\* while self.running
LoopTest(m) == m.running

\* monitoring_loop of thread p: while self.running: self.check_all_repositories();
\* repos = get_all_monitored_repos(); the sweep begins with the loop's test
CheckAll(p) ==
    /\ p \in monitor.threads
    /\ LoopTest(monitor)
    /\ th[p].pc = "idle"
    /\ get_all_monitored_repos(repositories) # <<>>
    /\ th' = [th EXCEPT ![p] =
                NextRepo([Idle EXCEPT !.queue = get_all_monitored_repos(repositories)])]
    /\ UNCHANGED <<main, users, monitor, now, remote, store, notified, summaries, faulted, faults, adds>>

\* handle_check: repos = get_user_repos(chat_id); for repo in repos: check_repository
HandleCheck(c) ==
    /\ th["cmd"].pc = "idle"
    /\ check_admin(c)
    /\ users' = EnsureUser(users, c)
    /\ get_user_repos(repositories, c) # <<>>
    /\ th' = [th EXCEPT !["cmd"] =
                NextRepo([Idle EXCEPT !.queue = get_user_repos(repositories, c)])]
    /\ UNCHANGED <<main, monitor, now, remote, store, notified, summaries, faulted, faults, adds>>

----------------------------------------------------------------------------
(* MonitorManager.check_repository *)

LookbackNone(t) == NULL

\* datetime.now() - timedelta(hours=24)
Lookback(t) == t - LOOKBACK_HOURS

\* a variant that stores the bound it computed
GetLastCommitDateStoresBound(p) ==
    /\ th[p].pc = "getdate"
    /\ LET d == get_last_commit_date(repositories, th[p].cur)
           since == IF d = NULL THEN now - LOOKBACK_HOURS ELSE d
       IN  /\ th' = [th EXCEPT ![p].pc = "fetch", ![p].since = since]
           /\ repositories' = update_last_commit(repositories, th[p].cur, NULL, since)
    /\ UNCHANGED <<main, users, monitor, now, remote, commit_history, notified, summaries, faulted, faults, adds>>

\* last_commit_date = get_last_commit_date(repo); if not last_commit_date:
\* last_commit_date = now - 24h
GetLastCommitDate(p) ==
    /\ th[p].pc = "getdate"
    /\ LET d == get_last_commit_date(repositories, th[p].cur)
       IN  th' = [th EXCEPT ![p].pc = "fetch",
                            ![p].since = IF d = NULL THEN Lookback(now) ELSE d]
    /\ UNCHANGED <<main, users, monitor, now, remote, store, notified, summaries, faulted, faults, adds>>

AfterFetchAborts(t, commits) ==
    IF commits = <<>> THEN Idle
    ELSE [t EXCEPT !.pc = "filter", !.commits = commits, !.new_commits = <<>>, !.i = 1]

\* what check_repository does with the fetched list before the filter loop
AfterFetch(t, commits) ==
    IF commits = <<>> THEN NextRepo(t)
    ELSE [t EXCEPT !.pc = "filter", !.commits = commits, !.new_commits = <<>>, !.i = 1]

\* commits = get_latest_commits(repo, branch, last_commit_date); if not commits: return
FetchCommits(p) ==
    /\ th[p].pc = "fetch"
    /\ \E commits \in get_latest_commits(th[p].cur, th[p].since) :
          th' = [th EXCEPT ![p] = AfterFetch(th[p], commits)]
    /\ UNCHANGED <<main, users, monitor, now, remote, store, notified, summaries, faulted, faults, adds>>

FetchFailureStale(r, since) == NewestFirst(Candidates(r, since))

\* get_latest_commits on a non-200 status, a timeout or a connection error:
\* the error is logged and the function falls through to return []
FetchFailure(r, since) == <<>>

\* check_repository when the remote call failed
FetchFails(p) ==
    /\ th[p].pc = "fetch"
    /\ faults < MaxFaults
    /\ faults' = faults + 1
    /\ faulted' = faulted \cup {<<p, th[p].cur, "fetch">>}
    /\ th' = [th EXCEPT ![p] = AfterFetch([th[p] EXCEPT !.failed = @ \cup {th[p].cur}],
                                          FetchFailure(th[p].cur, th[p].since))]
    /\ UNCHANGED <<main, users, monitor, now, remote, store, notified, summaries, adds>>

BatchUnsorted(new_commits) == new_commits

\* the list process_new_commits works on: commits.sort(...) of new_commits
Batch(new_commits) == SortByDateDesc(new_commits)

AfterFilterNotifiesFirst(t, new_commits) ==
    IF new_commits # <<>>
    THEN [t EXCEPT !.pc = "subs", !.commits = <<>>, !.new_commits = Batch(new_commits), !.i = 0]
    ELSE NextRepo(t)

\* after the filter loop: process_new_commits(new_commits), or return
AfterFilter(t, new_commits) ==
    IF new_commits # <<>>
    THEN [t EXCEPT !.pc = "log", !.commits = <<>>, !.new_commits = Batch(new_commits), !.i = 1]
    ELSE NextRepo(t)

IsNewNoDedup(hist, r, commit) == TRUE

IsNewByWatermark(hist, r, commit) ==
    \A k \in 1..Len(repositories) :
        repositories[k].repo_full_name = r => repositories[k].last_commit_sha # commit.sha

\* the test of the filter loop
IsNew(hist, r, commit) == ~is_commit_logged(hist, r, commit.sha)

\* for commit in commits: if not is_commit_logged(...): new_commits.append(commit)
FilterCommit(p) ==
    /\ th[p].pc = "filter"
    /\ LET t   == th[p]
           c   == t.commits[t.i]
           new == IF IsNew(commit_history, t.cur, c)
                  THEN Append(t.new_commits, c) ELSE t.new_commits
       IN  th' = [th EXCEPT ![p] =
                    IF t.i < Len(t.commits)
                    THEN [t EXCEPT !.new_commits = new, !.i = @ + 1]
                    ELSE AfterFilter(t, new)]
    /\ UNCHANGED <<main, users, monitor, now, remote, store, notified, summaries, faulted, faults, adds>>

----------------------------------------------------------------------------
(* MonitorManager.process_new_commits and send_commit_notification *)

\* for commit in commits: self.db.log_commit(commit)
LogCommit(p) ==
    /\ th[p].pc = "log"
    /\ LET t == th[p]
       IN  /\ commit_history' = log_commit(commit_history, t.cur, t.new_commits[t.i])
           /\ th' = [th EXCEPT ![p] =
                        IF t.i < Len(t.new_commits) THEN [t EXCEPT !.i = @ + 1]
                        ELSE [t EXCEPT !.pc = "update", !.i = 0]]
    /\ UNCHANGED <<main, users, monitor, now, remote, repositories, notified, summaries, faulted, faults, adds>>

\* latest_commit = commits[0]
LatestCommit(commits) == commits[1]

\* self.db.update_last_commit(repo, latest_commit['sha'], latest_commit['date'])
UpdateLastCommit(p) ==
    /\ th[p].pc = "update"
    /\ LET t == th[p]
           latest_commit == LatestCommit(t.new_commits)
       IN  /\ repositories' = update_last_commit(repositories, t.cur,
                                                 latest_commit.sha, latest_commit.date)
           /\ th' = [th EXCEPT ![p].pc = "subs"]
    /\ UNCHANGED <<main, users, monitor, now, remote, commit_history, notified, summaries, faulted, faults, adds>>

AfterStoreErrorAborts(t) == Idle

\* a store call of process_new_commits raised: the exception leaves
\* process_new_commits, check_repository's except clause logs it and
\* check_repository returns to the for-loop of its caller
AfterStoreError(t) == NextRepo(t)

\* log_commit raises (sqlite3 error): the INSERT is not committed
LogCommitFails(p) ==
    /\ th[p].pc = "log"
    /\ faults < MaxFaults
    /\ faults' = faults + 1
    /\ faulted' = faulted \cup {<<p, th[p].cur, "store">>}
    /\ th' = [th EXCEPT ![p] = AfterStoreError(th[p])]
    /\ UNCHANGED <<main, users, monitor, now, remote, store, notified, summaries, adds>>

\* update_last_commit raises (sqlite3 error): the UPDATE is not committed
UpdateLastCommitFails(p) ==
    /\ th[p].pc = "update"
    /\ faults < MaxFaults
    /\ faults' = faults + 1
    /\ faulted' = faulted \cup {<<p, th[p].cur, "store">>}
    /\ th' = [th EXCEPT ![p] = AfterStoreError(th[p])]
    /\ UNCHANGED <<main, users, monitor, now, remote, store, notified, summaries, adds>>

StoreFaultStep(p) == LogCommitFails(p) \/ UpdateLastCommitFails(p)

\* subscribers = self.db.get_repo_subscribers(repo); for chat_id in subscribers
GetSubscribers(p) ==
    /\ th[p].pc = "subs"
    /\ LET t == th[p]
           subscribers == get_repo_subscribers(repositories, t.cur)
       IN  th' = [th EXCEPT ![p] =
                    NextSubscriber([t EXCEPT !.subscribers = subscribers, !.si = 0])]
    /\ UNCHANGED <<main, users, monitor, now, remote, store, notified, summaries, faulted, faults, adds>>

\* language = self.db.get_user_language(chat_id); send_commit_notification(...)
GetUserLanguage(p) ==
    /\ th[p].pc = "lang"
    /\ th' = [th EXCEPT ![p].pc = "send", ![p].i = 1]
    /\ UNCHANGED <<main, users, monitor, now, remote, store, notified, summaries, faulted, faults, adds>>

DeliveryErrorRollsBack(rows, r) == update_last_commit(rows, r, NULL, NULL)

\* what the except clauses of the fan-out (process_new_commits,
\* send_commit_notification) do to the repositories table: logger.error only
DeliveryError(rows, r) == rows

AfterSubscriberErrorAborts(t) == NextRepo(t)

\* after an exception inside the per-subscriber try: except Exception: log it
AfterSubscriberError(t) == NextSubscriber(t)

\* get_user_language raises: the per-subscriber except clause, next subscriber
GetUserLanguageFails(p) ==
    /\ th[p].pc = "lang"
    /\ faults < MaxFaults
    /\ faults' = faults + 1
    /\ faulted' = faulted \cup {<<th[p].subscribers[th[p].si], th[p].cur, "lookup">>}
    /\ th' = [th EXCEPT ![p] = AfterSubscriberError(th[p])]
    /\ repositories' = DeliveryError(repositories, th[p].cur)
    /\ UNCHANGED <<main, users, monitor, now, remote, commit_history, notified, summaries, adds>>

\* one bot.send_message call of send_commit_notification: a commit of
\* commits[:5], then the summary when len(commits) > 5
SendMessage(p) ==
    /\ th[p].pc = "send"
    /\ Produced(th[p], th[p].subscribers[th[p].si])
    /\ th' = [th EXCEPT ![p] = AfterSend(th[p])]
    /\ UNCHANGED <<main, users, monitor, now, remote, store, faulted, faults, adds>>

\* after bot.send_message raised: the except clause around the call
AfterSendError(t) == AfterSend(t)

\* bot.send_message raises: logged, the loop goes on
SendMessageFails(p) ==
    /\ th[p].pc = "send"
    /\ faults < MaxFaults
    /\ faults' = faults + 1
    /\ faulted' = faulted \cup {<<th[p].subscribers[th[p].si], th[p].cur, "send">>}
    /\ Produced(th[p], th[p].subscribers[th[p].si])
    /\ th' = [th EXCEPT ![p] = AfterSendError(th[p])]
    /\ repositories' = DeliveryError(repositories, th[p].cur)
    /\ UNCHANGED <<main, users, monitor, now, remote, commit_history, adds>>

CheckStep(p) ==
    \/ GetLastCommitDate(p)
    \/ FetchCommits(p)
    \/ FetchFails(p)
    \/ FilterCommit(p)
    \/ LogCommit(p)
    \/ UpdateLastCommit(p)
    \/ GetSubscribers(p)
    \/ GetUserLanguage(p)
    \/ GetUserLanguageFails(p)
    \/ SendMessage(p)
    \/ SendMessageFails(p)

----------------------------------------------------------------------------
(* BotHandler.handle_add and handle_remove *)

\* the row of (c, r) as <<chat, sha, date>>, <<>> when c is not subscribed to r
PriorRow(rows, c, r) ==
    LET own == SelectSeq(rows, LAMBDA row : row.chat_id = c /\ row.repo_full_name = r)
    IN  IF own = <<>> THEN <<>>
        ELSE <<c, own[1].last_commit_sha, own[1].last_commit_date>>

\* get_repo_info succeeded; self.db.add_repository(chat_id, repo, url, branch)
HandleAdd(c, r) ==
    /\ th["cmd"].pc = "idle"
    /\ check_admin(c)
    /\ adds < MaxAdds
    /\ adds' = adds + 1
    /\ users' = add_user(EnsureUser(users, c), c, DEFAULT_LANGUAGE)
    /\ repositories' = add_repository(repositories, c, r)
    /\ th' = [th EXCEPT !["cmd"] = [Idle EXCEPT !.pc = "add_fetch", !.cur = r,
                                                !.prior = PriorRow(repositories, c, r)]]
    /\ UNCHANGED <<main, monitor, now, remote, commit_history, notified, summaries, faulted, faults>>

\* what handle_add does with the fetched list: if commits: latest = commits[0]
AfterAddFetch(t, commits) ==
    IF commits = <<>> THEN Idle
    ELSE [t EXCEPT !.pc = "add_update", !.commits = <<commits[1]>>]

\* commits = self.github.get_latest_commits(repo, default_branch)
AddFetch ==
    /\ th["cmd"].pc = "add_fetch"
    /\ \E commits \in get_latest_commits(th["cmd"].cur, NULL) :
          th' = [th EXCEPT !["cmd"] = AfterAddFetch(th["cmd"], commits)]
    /\ UNCHANGED <<main, users, monitor, now, remote, store, notified, summaries, faulted, faults, adds>>

AddFetchFails ==
    /\ th["cmd"].pc = "add_fetch"
    /\ faults < MaxFaults
    /\ faults' = faults + 1
    /\ faulted' = faulted \cup {<<"cmd", th["cmd"].cur, "fetch">>}
    /\ th' = [th EXCEPT !["cmd"] = AfterAddFetch(th["cmd"], FetchFailure(th["cmd"].cur, NULL))]
    /\ UNCHANGED <<main, users, monitor, now, remote, store, notified, summaries, adds>>

\* self.db.update_last_commit(repo, latest_commit['sha'], latest_commit['date'])
AddUpdate ==
    /\ th["cmd"].pc = "add_update"
    /\ LET t == th["cmd"]
       IN  repositories' = update_last_commit(repositories, t.cur,
                                              t.commits[1].sha, t.commits[1].date)
    /\ th' = [th EXCEPT !["cmd"].pc = "add_log"]
    /\ UNCHANGED <<main, users, monitor, now, remote, commit_history, notified, summaries, faulted, faults, adds>>

\* self.db.log_commit(latest_commit)
AddLog ==
    /\ th["cmd"].pc = "add_log"
    /\ commit_history' = log_commit(commit_history, th["cmd"].cur, th["cmd"].commits[1])
    /\ th' = [th EXCEPT !["cmd"] = Idle]
    /\ UNCHANGED <<main, users, monitor, now, remote, repositories, notified, summaries, faulted, faults, adds>>

\* self.db.remove_repository(chat_id, repo)
HandleRemove(c, r) ==
    /\ th["cmd"].pc = "idle"
    /\ check_admin(c)
    /\ users' = EnsureUser(users, c)
    /\ \E k \in 1..Len(repositories) :
          repositories[k].chat_id = c /\ repositories[k].repo_full_name = r
    /\ repositories' = remove_repository(repositories, c, r)
    /\ UNCHANGED <<main, monitor, now, remote, commit_history, th, notified, summaries, faulted, faults, adds>>

\* handle_start: a chat without a row is added with the default language
HandleStart(c) ==
    /\ th["cmd"].pc = "idle"
    /\ check_admin(c)
    /\ users' = (IF get_user_language(users, c) = NoUser
                 THEN add_user(users, c, DEFAULT_LANGUAGE) ELSE users)
    /\ UNCHANGED <<main, monitor, now, remote, store, th, notified, summaries, faulted, faults, adds>>

\* handle_callback_query on a set_lang_ button: update_user_language
HandleCallback(c, language) ==
    /\ th["cmd"].pc = "idle"
    /\ users' = update_user_language(users, c, language)
    /\ UNCHANGED <<main, monitor, now, remote, store, th, notified, summaries, faulted, faults, adds>>

\* any command handler: if not self.check_admin(chat_id): return
HandleDenied(c) ==
    /\ th["cmd"].pc = "idle"
    /\ ~check_admin(c)
    /\ UNCHANGED vars

----------------------------------------------------------------------------
(* MonitorManager.__init__, start_monitoring, stop_monitoring *)

\* MonitorManager.__init__: self.running = True, no loop thread yet
Constructed == [running |-> TRUE, threads |-> {}, starts |-> 0, stops |-> 0]

\* main(): monitor.start_monitoring() has been called once
Started == [running |-> TRUE, threads |-> {"timer"}, starts |-> 1, stops |-> 0]

\* the thread object a start_monitoring call creates
NewThread(m) == IF "timer" \in m.threads THEN "timer2" ELSE "timer"

\* start_monitoring: Thread(target=monitoring_loop, daemon=True).start();
\* self.running is not written
Start ==
    /\ monitor.starts < MaxStarts
    /\ monitor.threads # Loops
    /\ monitor' = [monitor EXCEPT !.threads = @ \cup {NewThread(monitor)}, !.starts = @ + 1]
    /\ UNCHANGED <<main, users, now, remote, store, th, notified, summaries, faulted, faults, adds>>

\* stop_monitoring: self.running = False
Stop ==
    /\ monitor.stops < MaxStops
    /\ monitor' = [monitor EXCEPT !.running = FALSE, !.stops = @ + 1]
    /\ UNCHANGED <<main, users, now, remote, store, th, notified, summaries, faulted, faults, adds>>

\* monitoring_loop of thread p: the while test fails, the thread ends
LoopExit(p) ==
    /\ p \in monitor.threads
    /\ th[p].pc = "idle"
    /\ ~LoopTest(monitor)
    /\ monitor' = [monitor EXCEPT !.threads = @ \ {p}]
    /\ UNCHANGED <<main, users, now, remote, store, th, notified, summaries, faulted, faults, adds>>

----------------------------------------------------------------------------
(* main() *)

AfterTestConnectionIgnored(ok) == "start"

\* if not github.test_connection(): logger.error(...); return
AfterTestConnection(ok) == IF ok THEN "start" ELSE "exited"

\* github.test_connection(): True on status 200, False on any other status,
\* a timeout, a connection error or any exception
TestConnection ==
    /\ main = "test"
    /\ users = UsersOf(repositories)
    /\ \E ok \in BOOLEAN :
          /\ main' = AfterTestConnection(ok)
          /\ faulted' = IF ok THEN faulted ELSE faulted \cup {<<"main", NoRepo, "connect">>}
    /\ UNCHANGED <<users, monitor, now, remote, store, th, notified, summaries, faults, adds>>

\* bot_handler = BotHandler(); monitor.start_monitoring(); ...;
\* bot.infinity_polling(...)
MainStart ==
    /\ main = "start"
    /\ monitor' = [monitor EXCEPT !.threads = @ \cup {NewThread(monitor)}, !.starts = @ + 1]
    /\ main' = "polling"
    /\ UNCHANGED <<users, now, remote, store, th, notified, summaries, faulted, faults, adds>>

\* handlers are dispatched by bot.infinity_polling, the last call of main()
Serving == main = "polling"

----------------------------------------------------------------------------
(* Environment *)

\* author dates of a pushed commit: now or an hour ago (a commit authored
\* earlier than the one before it is pushed after it)
PushDates == {now, now - 1}

\* the hash of the next commit of r; hashes compare as numbers
NextSha(r) == Cardinality(remote[r]) + 1

RECURSIVE Total(_, _)
Total(f, S) ==
    IF S = {} THEN 0
    ELSE LET x == CHOOSE y \in S : TRUE IN f[x] + Total(f, S \ {x})

Pushed == Total([r \in Repos |-> Cardinality(remote[r])], Repos)

\* a commit lands on the remote branch
Push(r, max) ==
    /\ Pushed < max
    /\ \E date \in PushDates :
          remote' = [remote EXCEPT ![r] = @ \cup {[sha |-> NextSha(r), date |-> date]}]
    /\ UNCHANGED <<main, users, monitor, now, store, th, notified, summaries, faulted, faults, adds>>

Tick ==
    /\ now < StartTime + MaxTicks
    /\ now' = now + 1
    /\ UNCHANGED <<main, users, monitor, remote, store, th, notified, summaries, faulted, faults, adds>>

\* the process dies and is started again: the store is kept, threads restart
Crash ==
    /\ faults < MaxFaults
    /\ \E p \in Procs : th[p].pc # "idle"
    /\ faults' = faults + 1
    /\ faulted' = faulted \cup {<<"process", NoRepo, "crash">>}
    /\ th' = [p \in Procs |-> Idle]
    /\ monitor' = Started
    /\ UNCHANGED <<main, users, now, remote, store, notified, summaries, adds>>

----------------------------------------------------------------------------
(* Specifications *)

\* the state after main() has started monitoring: empty tables, the loop
\* thread and the command thread idle
Init ==
    /\ now = StartTime
    /\ remote = [r \in Repos |-> {}]
    /\ repositories = <<>>
    /\ commit_history = EmptyBag
    /\ th = [p \in Procs |-> Idle]
    /\ notified = EmptyBag
    /\ summaries = EmptyBag
    /\ faulted = {}
    /\ faults = 0
    /\ adds = 0
    /\ monitor = Started
    /\ main = "polling"
    /\ users = UsersOf(repositories)

TimerStep == CheckAll("timer") \/ CheckStep("timer")

CmdStep ==
    \/ \E c \in Chats : HandleCheck(c)
    \/ \E c \in Chats, r \in Repos : HandleAdd(c, r)
    \/ \E c \in Chats, r \in Repos : HandleRemove(c, r)
    \/ AddFetch
    \/ AddFetchFails
    \/ AddUpdate
    \/ AddLog
    \/ CheckStep("cmd")

\* handlers of the two threads overlap in any way, within one clock reading
Next ==
    \/ TimerStep
    \/ CmdStep
    \/ \E r \in Repos : Push(r, MaxPush)
    \/ Crash

Spec == Init /\ [][Next]_vars

\* handlers run in turn: a thread takes a step only while the other is idle
NextSeq ==
    \/ th["cmd"].pc = "idle" /\ TimerStep
    \/ th["timer"].pc = "idle" /\ CmdStep
    \/ \E p \in {"timer", "cmd"} :
          (\A q \in Procs \ {p} : th[q].pc = "idle") /\ StoreFaultStep(p)
    \/ \E r \in Repos : Push(r, MaxPushSeq)
    \/ Tick
    \/ Crash

SpecSeq == Init /\ [][NextSeq]_vars

\* author dates of the commits already on the remote: every choice of
\* {now - 1, now} for a short history, three shapes for a long one
BatchDates(n) ==
    IF n <= MaxPerm THEN [1..n -> {StartTime - 1, StartTime}]
    ELSE {[k \in 1..n |-> StartTime],
          [k \in 1..n |-> StartTime - (n - k)],
          [k \in 1..n |-> StartTime - ((k + 1) \div 2)]}

\* X and Y subscribed to A while it had no commits (add_repository rows, no
\* watermark, empty commit_history); since then n commits landed on A
InitBatch ==
    /\ now = StartTime
    /\ \E n \in 0..MaxBatch : \E d \in BatchDates(n) :
          remote = [r \in Repos |->
                      IF r = "A" THEN {[sha |-> k, date |-> d[k]] : k \in 1..n} ELSE {}]
    /\ repositories = add_repository(add_repository(<<>>, "X", "A"), "Y", "A")
    /\ commit_history = EmptyBag
    /\ th = [p \in Procs |-> Idle]
    /\ notified = EmptyBag
    /\ summaries = EmptyBag
    /\ faulted = {}
    /\ faults = 0
    /\ adds = 0
    /\ monitor = Started
    /\ main = "polling"
    /\ users = UsersOf(repositories)

\* the monitoring loop alone, sweep after sweep
SpecBatch == InitBatch /\ [][TimerStep]_vars

\* the monitoring loop with a process restart; the loop thread is always
\* scheduled again (while self.running: ... time.sleep(CHECK_INTERVAL))
NextRestart == TimerStep \/ Crash

\* as InitBatch, with a short history on A
InitRestart == InitBatch /\ Cardinality(remote["A"]) <= MaxRestart

SpecRestart == InitRestart /\ [][NextRestart]_vars /\ WF_vars(TimerStep)

\* author dates around the first check's lower bound: an hour before it, on
\* it, and an hour ago
OldDates == {StartTime - LOOKBACK_HOURS - 1, StartTime - LOOKBACK_HOURS, StartTime - 1}

\* X subscribed to A while the remote gave no commits (no watermark, empty
\* commit_history); A holds n commits, old and recent
InitLookback ==
    /\ now = StartTime
    /\ \E n \in 0..MaxOld : \E d \in [1..n -> OldDates] :
          remote = [r \in Repos |->
                      IF r = "A" THEN {[sha |-> k, date |-> d[k]] : k \in 1..n} ELSE {}]
    /\ repositories = add_repository(<<>>, "X", "A")
    /\ commit_history = EmptyBag
    /\ th = [p \in Procs |-> Idle]
    /\ notified = EmptyBag
    /\ summaries = EmptyBag
    /\ faulted = {}
    /\ faults = 0
    /\ adds = 0
    /\ monitor = Started
    /\ main = "polling"
    /\ users = UsersOf(repositories)

\* the monitoring loop on a repository never checked before, as time passes
SpecLookback == InitLookback /\ [][TimerStep \/ Tick]_vars

\* a MonitorManager just constructed, no start_monitoring call yet; X is
\* subscribed to A and to B (no watermark), each with one commit to detect
InitSched ==
    /\ now = StartTime
    /\ remote = [r \in Repos |-> {[sha |-> 1, date |-> StartTime]}]
    /\ repositories = add_repository(add_repository(<<>>, "X", "A"), "X", "B")
    /\ commit_history = EmptyBag
    /\ th = [p \in Procs |-> Idle]
    /\ notified = EmptyBag
    /\ summaries = EmptyBag
    /\ faulted = {}
    /\ faults = 0
    /\ adds = 0
    /\ monitor = Constructed
    /\ main = "polling"
    /\ users = UsersOf(repositories)

\* any sequence of start_monitoring and stop_monitoring calls, and the loop
\* threads they create
NextSched ==
    \/ Start
    \/ Stop
    \/ \E p \in Loops : LoopExit(p)
    \/ \E p \in Loops : CheckAll(p)
    \/ \E p \in Loops : CheckStep(p)

SpecSched == InitSched /\ [][NextSched]_vars

\* X subscribed to A while it had no commits; one commit has landed since
InitRace ==
    /\ now = StartTime
    /\ remote = [r \in Repos |->
                   IF r = "A" THEN {[sha |-> 1, date |-> StartTime - 1]} ELSE {}]
    /\ repositories = add_repository(<<>>, "X", "A")
    /\ commit_history = EmptyBag
    /\ th = [p \in Procs |-> Idle]
    /\ notified = EmptyBag
    /\ summaries = EmptyBag
    /\ faulted = {}
    /\ faults = 0
    /\ adds = 0
    /\ monitor = Started
    /\ main = "polling"
    /\ users = UsersOf(repositories)

\* the monitoring loop and /check commands of X overlap in any way while
\* commits land on A
NextRace ==
    \/ TimerStep
    \/ HandleCheck("X")
    \/ CheckStep("cmd")
    \/ Push("A", MaxPushSeq)

SpecRace == InitRace /\ [][NextRace]_vars

\* the steps of Y's /add A command
AddStep ==
    \/ HandleAdd("Y", "A")
    \/ AddFetch
    \/ AddUpdate
    \/ AddLog

\* X is subscribed to A and a commit is waiting to be detected; Y sends /add A
\* while the monitoring loop sweeps; fetches succeed unless a fault is
\* injected, the loop thread and the command handler are always scheduled again
NextAdd == TimerStep \/ AddStep

SpecAdd == InitRace /\ [][NextAdd]_vars /\ WF_vars(TimerStep) /\ WF_vars(AddStep)

\* X subscribed to A while it had no commits; since the last check a full
\* page of commits, or more, has landed on A
InitPage ==
    /\ now = StartTime
    /\ \E n \in PER_PAGE..(PER_PAGE + MaxOver) : \E d \in BatchDates(n) :
          remote = [r \in Repos |->
                      IF r = "A" THEN {[sha |-> k, date |-> d[k]] : k \in 1..n} ELSE {}]
    /\ repositories = add_repository(<<>>, "X", "A")
    /\ commit_history = EmptyBag
    /\ th = [p \in Procs |-> Idle]
    /\ notified = EmptyBag
    /\ summaries = EmptyBag
    /\ faulted = {}
    /\ faults = 0
    /\ adds = 0
    /\ monitor = Started
    /\ main = "polling"
    /\ users = UsersOf(repositories)

\* the monitoring loop alone, sweep after sweep, always scheduled again
SpecPage == InitPage /\ [][TimerStep]_vars /\ WF_vars(TimerStep)

\* nobody is subscribed yet; A already holds two commits of the same date
InitExisting ==
    /\ now = StartTime
    /\ remote = [r \in Repos |->
                   IF r = "A" THEN {[sha |-> k, date |-> StartTime - 1] : k \in 1..2} ELSE {}]
    /\ repositories = <<>>
    /\ commit_history = EmptyBag
    /\ th = [p \in Procs |-> Idle]
    /\ notified = EmptyBag
    /\ summaries = EmptyBag
    /\ faulted = {}
    /\ faults = 0
    /\ adds = 0
    /\ monitor = Started
    /\ main = "polling"
    /\ users = UsersOf(repositories)

\* commands and sweeps run in turn; nothing lands on the remote
NextExisting ==
    \/ th["cmd"].pc = "idle" /\ TimerStep
    \/ th["timer"].pc = "idle" /\ CmdStep

SpecExisting == InitExisting /\ [][NextExisting]_vars

\* commands and button presses of any chat, served one after another
NextUsers ==
    \/ \E c \in Callers : HandleStart(c)
    \/ \E c \in Callers, language \in Langs : HandleCallback(c, language)
    \/ \E c \in Callers : HandleDenied(c)
    \/ \E c \in Callers : HandleCheck(c)
    \/ \E c \in Callers, r \in Repos : HandleAdd(c, r)
    \/ \E c \in Callers, r \in Repos : HandleRemove(c, r)
    \/ AddFetch
    \/ AddFetchFails
    \/ AddUpdate
    \/ AddLog
    \/ CheckStep("cmd")

SpecUsers == InitExisting /\ [][NextUsers]_vars

\* the process from its start: the module-level objects exist (empty
\* tables, a MonitorManager with no loop thread), main() is about to test
\* the connection
InitMain ==
    /\ now = StartTime
    /\ remote = [r \in Repos |-> {}]
    /\ repositories = <<>>
    /\ commit_history = EmptyBag
    /\ th = [p \in Procs |-> Idle]
    /\ notified = EmptyBag
    /\ summaries = EmptyBag
    /\ faulted = {}
    /\ faults = 0
    /\ adds = 0
    /\ monitor = Constructed
    /\ main = "test"
    /\ users = UsersOf(repositories)

NextMain ==
    \/ TestConnection
    \/ MainStart
    \/ TimerStep
    \/ Serving /\ CmdStep
    \/ \E r \in Repos : Push(r, MaxPush)

SpecMain == InitMain /\ [][NextMain]_vars

----------------------------------------------------------------------------
(* Properties *)

InFanout(t) == t.pc \in {"update", "subs", "lang", "send"}

Watermark(r) ==
    IF RowsOf(repositories, r) = <<>> THEN NULL
    ELSE RowsOf(repositories, r)[1].last_commit_sha

\* C1: when checks of a repository run one after another, a commit already
\* in the commit log is never passed to the formatter again: every commit of
\* a batch being fanned out has exactly the one record this check wrote, and
\* no subscriber is handed the same commit of a repository twice.
C1_RecordedNotRenotified ==
    /\ \A p \in Procs :
          InFanout(th[p]) =>
             \A j \in 1..Len(th[p].new_commits) :
                CopiesIn(<<th[p].cur, th[p].new_commits[j].sha>>, commit_history) = 1
    /\ \A c \in Chats, r \in Repos, sha \in Shas : CopiesIn(<<c, r, sha>>, notified) <= 1

\* a later check is handed, by the remote, a commit that was already notified
C1_Witness ==
    \E p \in Procs, c \in Chats :
        /\ th[p].pc = "filter"
        /\ CopiesIn(<<c, th[p].cur, th[p].commits[th[p].i].sha>>, notified) = 1

\* C2: with a timer check and a manual check of the same repository
\* overlapping, no subscriber is sent the individual notification of one
\* commit hash more than once.
C2_NoDoubleNotification ==
    \A k \in BagToSet(notified) : CopiesIn(k, notified) < 2

\* C3: in every state a non-null watermark hash names a commit that is in
\* the commit log of that repository.
C3_WatermarkIsRecorded ==
    \A k \in 1..Len(repositories) :
        repositories[k].last_commit_sha # NULL =>
            is_commit_logged(commit_history, repositories[k].repo_full_name,
                             repositories[k].last_commit_sha)

\* the commits of S with the greatest timestamp
NewestOf(S) == {c \in S : \A d \in S : d.date <= c.date}

\* C4: right after a check has written the watermark for a batch of new
\* commits, the watermark is the commit of the batch with the greatest
\* timestamp, and among several of that timestamp the one chosen by the
\* lexical order of the hashes (the least or the greatest hash), whatever
\* order the remote returned them in.
C4_WatermarkIsNewest ==
    \A p \in Procs :
        th[p].pc = "subs" =>
            LET top == NewestOf(Range(th[p].new_commits))
                row == RowsOf(repositories, th[p].cur)[1]
            IN  /\ \E c \in top : row.last_commit_date = c.date
                /\ \/ \A c \in top : row.last_commit_sha <= c.sha
                   \/ \A c \in top : row.last_commit_sha >= c.sha

\* chat c was handed commit sha of A, or a summary that counts it, or its
\* locale lookup raised
Attempted(c, sha) ==
    \/ CopiesIn(<<c, "A", sha>>, notified) > 0
    \/ \E k \in BagToSet(summaries) : k[1] = c /\ k[2] = "A"
    \/ <<c, "A", "lookup">> \in faulted

\* C5: every commit the engine records as new is eventually handed to the
\* sink for each subscriber, also when the process is restarted in between.
C5_AtLeastOnce ==
    \A c \in Chats, sha \in Shas :
        is_commit_logged(commit_history, "A", sha) ~> Attempted(c, sha)

\* the individual messages produced for chat c about repository r
Individual(c, r) ==
    Total([sha \in Shas |-> CopiesIn(<<c, r, sha>>, notified)], Shas)

\* the summary messages produced for chat c about repository r
SummariesOf(c, r) == {k \in BagToSet(summaries) : k[1] = c /\ k[2] = r}

\* the sweep that detected the commits of A has run to its end
BatchDone == th["timer"].pc = "idle" /\ Watermark("A") # NULL

\* C6: a batch of N > 5 new commits produces, for each subscriber, exactly
\* 5 individual messages and exactly one summary, whose extra count is N - 5.
C6_CapAndSummary ==
    (BatchDone /\ Cardinality(remote["A"]) > NOTIFY_CAP) =>
        \A c \in Chats :
            <<c, "A", "lookup">> \notin faulted =>
                /\ Individual(c, "A") = NOTIFY_CAP
                /\ \A sha \in Shas : CopiesIn(<<c, "A", sha>>, notified) <= 1
                /\ SummariesOf(c, "A") = {<<c, "A", Cardinality(remote["A"]) - NOTIFY_CAP>>}
                /\ \A k \in SummariesOf(c, "A") : CopiesIn(k, summaries) = 1

\* a batch of more than 5 commits has been fanned out to X and Y
C6_Witness ==
    /\ BatchDone
    /\ Cardinality(remote["A"]) = NOTIFY_CAP + 2
    /\ \A c \in Chats : Individual(c, "A") = NOTIFY_CAP /\ <<c, "A", 2>> \in BagToSet(summaries)

\* C7: a batch of 1 <= N <= 5 new commits on a repository with no prior
\* state gives every subscriber whose fan-out did not raise exactly N
\* individual messages, one per new commit, and no summary.
C7_SmallBatch ==
    (BatchDone /\ Cardinality(remote["A"]) \in 1..NOTIFY_CAP) =>
        \A c \in Chats :
            (\A f \in faulted : f[1] # c) =>
                /\ \A sha \in Shas :
                      CopiesIn(<<c, "A", sha>>, notified) =
                          (IF sha <= Cardinality(remote["A"]) THEN 1 ELSE 0)
                /\ SummariesOf(c, "A") = {}

\* three commits on a fresh repository, fanned out to X and Y with no fault
C7_Witness ==
    /\ BatchDone
    /\ Cardinality(remote["A"]) = 3
    /\ faulted = {}
    /\ \A c \in Chats : Individual(c, "A") = 3

\* the step in which thread p's remote call for the repository it checks fails
FetchFaultStep(p) ==
    /\ th[p].pc = "fetch"
    /\ <<p, th[p].cur, "fetch">> \in faulted' \ faulted

\* C8: in a sweep, a failed fetch for one repository is followed by the
\* per-repository step of the next repository of the sweep, and a later
\* repository of that sweep with new commits has them all in the commit log
\* and its watermark moved to the newest of them.
C8_SweepContinues ==
    /\ [][\A p \in Procs :
            (FetchFaultStep(p) /\ th[p].queue # <<>>) =>
                /\ th'[p].pc = "getdate"
                /\ th'[p].cur = Head(th[p].queue)
                /\ th'[p].queue = Tail(th[p].queue)]_vars
    /\ [](\A p \in Procs :
            (th[p].failed # {} /\ th[p].pc = "subs") =>
                /\ th[p].new_commits # <<>>
                /\ \A j \in 1..Len(th[p].new_commits) :
                      is_commit_logged(commit_history, th[p].cur, th[p].new_commits[j].sha)
                /\ \A k \in 1..Len(repositories) :
                      repositories[k].repo_full_name = th[p].cur =>
                          /\ repositories[k].last_commit_sha \in
                                {c.sha : c \in NewestOf(Range(th[p].new_commits))}
                          /\ repositories[k].last_commit_date \in
                                {c.date : c \in NewestOf(Range(th[p].new_commits))})

\* the fetch for A failed in the timer's sweep, which went on to B, recorded
\* B's new commit and moved B's watermark
C8_Witness ==
    /\ th["timer"].failed = {"A"}
    /\ th["timer"].cur = "B"
    /\ th["timer"].pc = "subs"
    /\ Watermark("B") # NULL
    /\ is_commit_logged(commit_history, "B", Watermark("B"))

\* the subscribers of A for which a locale lookup or a send raised
Failed(x) == \E f \in faulted : f[1] = x /\ f[2] = "A" /\ f[3] \in {"lookup", "send"}

\* chat y was handed the whole batch of A: each of the first NOTIFY_CAP
\* commits once, and the summary when the batch is longer
Delivered(y) ==
    LET n == Cardinality(remote["A"])
    IN  /\ Individual(y, "A") = Min(n, NOTIFY_CAP)
        /\ \A sha \in Shas : CopiesIn(<<y, "A", sha>>, notified) <= 1
        /\ n > NOTIFY_CAP => CopiesIn(<<y, "A", n - NOTIFY_CAP>>, summaries) = 1

\* C9: when the locale lookup or a send raises for subscriber x during the
\* fan-out of a batch, every other subscriber y is still handed the batch,
\* and the thread goes on with the fan-out and the sweep: the faulting step
\* leaves it at the next message or subscriber of the same batch, or at the
\* next repository of the sweep when x was the last subscriber.
C9_FanoutIsolated ==
    /\ [][\A p \in Procs : \A x \in Chats :
            (/\ th[p].pc \in {"lang", "send"}
             /\ \E kind \in {"lookup", "send"} :
                    <<x, th[p].cur, kind>> \in faulted' \ faulted) =>
                \/ /\ th'[p].pc \in {"lang", "send"}
                   /\ th'[p].cur = th[p].cur
                   /\ th'[p].new_commits = th[p].new_commits
                   /\ th'[p].queue = th[p].queue
                \/ /\ th[p].si = Len(th[p].subscribers)
                   /\ th'[p] = NextRepo(th[p])]_vars
    /\ [](BatchDone =>
            \A x \in Chats : Failed(x) =>
                \A y \in Chats \ {x} : ~Failed(y) => Delivered(y))

\* the locale lookup raised for X, the first subscriber, and Y was still
\* handed the three commits of the batch
C9_Witness ==
    /\ BatchDone
    /\ <<"X", "A", "lookup">> \in faulted
    /\ Cardinality(remote["A"]) = 3
    /\ Individual("X", "A") = 0
    /\ Individual("Y", "A") = 3

\* C10: the step in which the fetch of a check fails leaves the repositories
\* table (watermark hash and timestamp) and the commit log as they were, and
\* ends that check with no commits: the thread is idle or at another
\* repository.
C10_FailedFetchChangesNothing ==
    [][\A p \in Procs :
          FetchFaultStep(p) =>
              /\ store' = store
              /\ th'[p].commits = <<>>
              /\ th'[p].new_commits = <<>>
              /\ th'[p].pc \in {"idle", "getdate"}
              /\ th'[p].cur # th[p].cur]_vars

\* the fetch of A failed while A had a commit the engine had not seen: the
\* check is over, nothing is recorded and the watermark is still unset
C10_Witness ==
    /\ <<"timer", "A", "fetch">> \in faulted
    /\ th["timer"].pc = "idle"
    /\ remote["A"] # {}
    /\ RowsOf(repositories, "A") # <<>>
    /\ Watermark("A") = NULL
    /\ commit_history = EmptyBag

\* the step in which a store write of thread p's per-repository step raises
StoreFaultAt(p) ==
    /\ th[p].pc \in {"log", "update"}
    /\ <<p, th[p].cur, "store">> \in faulted' \ faulted

\* the watermark timestamp of r as check_repository reads it
WatermarkDate(r) == get_last_commit_date(repositories, r)

\* C11: when log_commit or update_last_commit raises in a per-repository
\* step, the repositories table is left as it is, and up to that point the
\* step has not written the watermark (it still is the value read when the
\* step began); the thread goes on in its normal flow with the next
\* repository of the sweep, or it ends the sweep and is ready for the next.
C11_StoreErrorAbortsStep ==
    /\ [][\A p \in Procs :
            StoreFaultAt(p) =>
                /\ repositories' = repositories
                /\ IF th[p].queue # <<>>
                   THEN /\ th'[p].pc = "getdate"
                        /\ th'[p].cur = Head(th[p].queue)
                        /\ th'[p].queue = Tail(th[p].queue)
                   ELSE th'[p] = Idle]_vars
    /\ [](\A p \in Procs :
            th[p].pc \in {"fetch", "filter", "log", "update"} =>
                \/ WatermarkDate(th[p].cur) = th[p].since
                \/ /\ WatermarkDate(th[p].cur) = NULL
                   /\ th[p].since >= Lookback(StartTime)
                   /\ th[p].since <= Lookback(now))

\* a store write failed while the sweep recorded A's new commit: A's
\* watermark is still unset and the sweep is at B
C11_Witness ==
    /\ <<"timer", "A", "store">> \in faulted
    /\ th["timer"].cur = "B"
    /\ th["timer"].pc = "getdate"
    /\ remote["A"] # {}
    /\ RowsOf(repositories, "A") # <<>>
    /\ Watermark("A") = NULL

\* the step in which the locale lookup or a send of thread p's fan-out raises
DeliveryFaultAt(p) ==
    /\ th[p].pc \in {"lang", "send"}
    /\ \E x \in Chats, kind \in {"lookup", "send"} :
          <<x, th[p].cur, kind>> \in faulted' \ faulted

\* C12: a step of the fan-out in which the locale lookup or a send raises
\* leaves the repositories table and the commit log as they are, and
\* throughout the fan-out, after a failure too, the batch's commits are in
\* the commit log and the watermark is the one the step wrote.
C12_DeliveryFailureKeepsStore ==
    /\ [][\A p \in Procs : DeliveryFaultAt(p) => store' = store]_vars
    /\ [](\A p \in Procs :
            th[p].pc \in {"lang", "send"} =>
                /\ \A j \in 1..Len(th[p].new_commits) :
                      is_commit_logged(commit_history, th[p].cur, th[p].new_commits[j].sha)
                /\ \A k \in 1..Len(repositories) :
                      repositories[k].repo_full_name = th[p].cur =>
                          /\ repositories[k].last_commit_sha = LatestCommit(th[p].new_commits).sha
                          /\ repositories[k].last_commit_date = LatestCommit(th[p].new_commits).date)
    /\ [](\A x \in Chats :
            Failed(x) =>
                /\ Watermark("A") # NULL
                /\ \A c \in remote["A"] : is_commit_logged(commit_history, "A", c.sha))

\* a send to Y, the last subscriber, raised; the sweep is over and the
\* watermark and the record of the batch are in place
C12_Witness ==
    /\ BatchDone
    /\ <<"Y", "A", "send">> \in faulted
    /\ Cardinality(remote["A"]) = 2
    /\ Watermark("A") \in {1, 2}
    /\ \A sha \in {1, 2} : is_commit_logged(commit_history, "A", sha)

\* the author date of commit sha of repository r
DateOf(r, sha) == (CHOOSE c \in remote[r] : c.sha = sha).date

C14_NewIsFetchedMinusLogged ==
    [][\A p \in Procs :
          (th[p].pc = "filter" /\ th'[p].pc # "filter" /\ faults' = faults) =>
              LET new == {c \in Range(th[p].commits) :
                            ~is_commit_logged(commit_history, th[p].cur, c.sha)}
              IN  IF new # {}
                  THEN /\ th'[p].pc = "log"
                       /\ th'[p].cur = th[p].cur
                       /\ Range(th'[p].new_commits) = new
                       /\ Len(th'[p].new_commits) = Cardinality(new)
                  ELSE th'[p].pc \in {"idle", "getdate"}]_vars

\* the watermark is at commit 1, recorded and notified; the remote returned
\* commit 1 again with the later commit 2, and only commit 2 is to be recorded
C14_Witness ==
    /\ th["timer"].pc = "log"
    /\ th["timer"].cur = "A"
    /\ Watermark("A") = 1
    /\ is_commit_logged(commit_history, "A", 1)
    /\ CopiesIn(<<"X", "A", 1>>, notified) = 1
    /\ {c.sha : c \in Candidates("A", th["timer"].since)} = {1, 2}
    /\ Len(th["timer"].new_commits) = 1
    /\ th["timer"].new_commits[1].sha = 2
    /\ th["timer"].new_commits[1].date > WatermarkDate("A")

\* periodic sweeps execute: a loop thread is alive and its while test passes
SchedulerRunning == monitor.threads # {} /\ LoopTest(monitor)

\* C15: the scheduler is Stopped until start is called, every start call
\* leaves it Running (a loop thread sweeps periodically), also a start that
\* follows a stop, and every stop call leaves it Stopped.
C15_StartStop ==
    /\ [](monitor.starts = 0 => ~SchedulerRunning)
    /\ [][/\ monitor'.starts > monitor.starts => SchedulerRunning'
          /\ monitor'.stops > monitor.stops => ~SchedulerRunning']_vars

\* C16: at no time are two timer-driven sweeps in progress.
C16_NoOverlappingSweeps ==
    Cardinality({p \in Loops : th[p].pc # "idle"}) <= 1

\* C17: once stop has been signaled no loop thread begins a sweep; the stop
\* call leaves the threads where they are, and a sweep in flight is never
\* stuck or dropped: its thread stays alive and has a next step to take.
C17_StopLetsSweepFinish ==
    /\ [][\A p \in Loops :
            (th[p].pc = "idle" /\ th'[p].pc # "idle") => monitor.stops = 0]_vars
    /\ [][monitor'.stops > monitor.stops => th' = th]_vars
    /\ [](\A p \in Loops :
            th[p].pc # "idle" => (p \in monitor.threads /\ ENABLED CheckStep(p)))

\* stop was signaled while the loop was fanning out A's commit; the sweep
\* went on and has reached the fan-out of B's commit
C17_Witness ==
    /\ monitor.stops = 1
    /\ ~monitor.running
    /\ th["timer"].pc = "send"
    /\ th["timer"].cur = "B"
    /\ CopiesIn(<<"X", "A", 1>>, notified) = 1

\* C18: once the stop flag has flipped, a loop thread in a sweep does not
\* begin the detection step of a further repository of that sweep.
C18_NoFurtherRepositoryAfterStop ==
    [][\A p \in Loops :
          (th[p].pc # "idle" /\ th'[p].pc = "getdate" /\ th'[p].cur # th[p].cur)
              => monitor.running]_vars

\* the step is a process restart
CrashStep ==
    /\ faults' > faults
    /\ <<"process", NoRepo, "crash">> \in faulted'
    /\ \A p \in Procs : th'[p] = Idle

\* a step taken by the thread serving commands
CmdMoves == th'["cmd"] # th["cmd"] /\ ~CrashStep

\* C19: a manual check walks the repositories of one user and runs the
\* per-repository step in the command thread: the commits it found new are
\* in the commit log when it fans out, and it fans out to every subscriber
\* of the repository.  No step of the command thread changes the
\* MonitorManager's flag or threads, or the position of a loop thread.
C19_ManualCheck ==
    /\ [][CmdMoves =>
            /\ monitor' = monitor
            /\ \A p \in Loops : th'[p] = th[p]]_vars
    /\ [][(CmdMoves /\ th["cmd"].pc = "idle" /\ th'["cmd"].pc = "getdate") =>
            \E c \in Chats :
                <<th'["cmd"].cur>> \o th'["cmd"].queue = get_user_repos(repositories, c)]_vars
    /\ [][(CmdMoves /\ th["cmd"].pc = "subs") =>
            LET all == {repositories[k].chat_id :
                          k \in {j \in 1..Len(repositories) :
                                   repositories[j].repo_full_name = th["cmd"].cur}}
            IN  IF all = {} THEN th'["cmd"].pc \in {"idle", "getdate"}
                ELSE /\ th'["cmd"].pc = "lang"
                     /\ th'["cmd"].cur = th["cmd"].cur
                     /\ Range(th'["cmd"].subscribers) = all
                     /\ Len(th'["cmd"].subscribers) = Cardinality(all)]_vars
    /\ [](th["cmd"].pc \in {"update", "subs", "lang", "send"} =>
            \A j \in 1..Len(th["cmd"].new_commits) :
                is_commit_logged(commit_history, th["cmd"].cur, th["cmd"].new_commits[j].sha))

\* a manual check is sending A's new commit to the second of A's two
\* subscribers while the loop thread is in its own sweep
C19_Witness ==
    /\ th["cmd"].pc = "send"
    /\ th["cmd"].cur = "A"
    /\ Len(th["cmd"].subscribers) = 2
    /\ th["cmd"].si = 2
    /\ th["timer"].pc # "idle"
    /\ monitor = Started

\* C20: the commit log never holds two records of one repository and hash.
C20_LogCommitIdempotent ==
    \A k \in BagToSet(commit_history) : CopiesIn(k, commit_history) <= 1

\* C21: under any interleaving of /add and /remove commands with the checks,
\* the repositories table holds at most one row per (chat, repository), and
\* get_repo_subscribers returns no chat twice for a repository.
C21_OneSubscriptionPerPair ==
    /\ \A j, k \in 1..Len(repositories) :
          j # k => ~(/\ repositories[j].chat_id = repositories[k].chat_id
                     /\ repositories[j].repo_full_name = repositories[k].repo_full_name)
    /\ \A r \in Repos :
          LET subscribers == get_repo_subscribers(repositories, r)
          IN  \A j, k \in 1..Len(subscribers) : j # k => subscribers[j] # subscribers[k]

\* an /add of a repository the chat already had a row for has replaced the
\* row: the chat is listed once
C21_Witness ==
    /\ th["cmd"].pc = "add_fetch"
    /\ th["cmd"].prior # <<>>
    /\ get_repo_subscribers(repositories, th["cmd"].cur) = <<th["cmd"].prior[1]>>

\* C22: the watermark of a repository is one value shared by its
\* subscribers: in every reachable state all rows of a repository hold the
\* same last_commit_sha and the same last_commit_date.
C22_WatermarkShared ==
    \A j, k \in 1..Len(repositories) :
        repositories[j].repo_full_name = repositories[k].repo_full_name
            => /\ repositories[j].last_commit_sha = repositories[k].last_commit_sha
               /\ repositories[j].last_commit_date = repositories[k].last_commit_date

\* the row of chat c for repository r after the step, as <<chat, sha, date>>
RowMarkAfter(c, r) == PriorRow(repositories', c, r)

\* the step by which an /add command's handler returns
AddReturns ==
    /\ th["cmd"].pc \in {"add_fetch", "add_update", "add_log"}
    /\ th'["cmd"].pc = "idle"
    /\ ~CrashStep

\* C23: an /add of a repository the chat is already subscribed to, with a
\* watermark on its row, leaves the watermark as it was: when the handler
\* returns, the chat's row holds the last_commit_sha and last_commit_date it
\* held before the command.
C23_ReAddKeepsWatermark ==
    [][(AddReturns /\ th["cmd"].prior # <<>> /\ th["cmd"].prior[2] # NULL)
          => RowMarkAfter(th["cmd"].prior[1], th["cmd"].cur) = th["cmd"].prior]_vars

\* thread p's check of r has found new commits and writes the watermark
WatermarkStep(p, r) ==
    /\ th[p].pc = "update"
    /\ th[p].cur = r
    /\ th'[p].pc = "subs"

\* C24: the watermark of a repository (hash and date, as the next check
\* reads them) changes only in the update_last_commit step of a check that
\* found new commits; no step of /add, /remove or any other handler changes
\* it.
C24_OnlyCheckMovesWatermark ==
    [][\A r \in Repos :
          (Watermark(r)' # Watermark(r) \/ WatermarkDate(r)' # WatermarkDate(r))
              => \E p \in Procs : WatermarkStep(p, r)]_vars

\* thread p is in the detection part of check_repository: reading the
\* watermark, fetching, or filtering the fetched list
Detecting(p) == th[p].pc \in {"getdate", "fetch", "filter"}

\* thread p's check of its repository ends in this step without having
\* called process_new_commits
EndsWithoutNew(p) ==
    /\ Detecting(p)
    /\ th'[p].pc \in {"idle", "getdate"}
    /\ ~CrashStep

\* C25: detection has no side effects.  Every step of a check up to the end
\* of the filter loop leaves both tables unchanged and sends no message; and
\* a check goes on to process_new_commits only with a non-empty list of
\* commits that are not in the commit log, so a check with an empty fetch, a
\* failed fetch or only known candidates ends with the store as it found it.
C25_DetectionHasNoSideEffects ==
    [][\A p \in {"timer", "cmd"} :
          (Detecting(p) /\ th'[p] # th[p])
              => /\ store' = store
                 /\ notified' = notified
                 /\ summaries' = summaries
                 /\ (th'[p].pc = "log" =>
                        /\ th'[p].new_commits # <<>>
                        /\ \A c \in Range(th'[p].new_commits) :
                              ~is_commit_logged(commit_history, th[p].cur, c.sha))
                 /\ (\/ th[p].pc = "filter"
                        /\ th[p].i = Len(th[p].commits)
                        /\ \A c \in Range(th[p].commits) :
                              is_commit_logged(commit_history, th[p].cur, c.sha)
                     \/ th[p].pc = "fetch"
                        /\ Candidates(th[p].cur, th[p].since) = {})
                    => (EndsWithoutNew(p) \/ CrashStep)]_vars

\* a check has run through the filter loop on a fetched list of commits that
\* are all in the commit log, after earlier notifications
C25_Witness ==
    /\ th["timer"].pc = "filter"
    /\ th["timer"].i = Len(th["timer"].commits)
    /\ th["timer"].new_commits = <<>>
    /\ \A c \in Range(th["timer"].commits) :
          is_commit_logged(commit_history, th["timer"].cur, c.sha)
    /\ notified # EmptyBag

\* C26: when the connection test of main() has failed, monitoring is never
\* started: no monitoring loop thread exists and start_monitoring was never
\* called, no sweep or check runs, no command is served and nothing is
\* written or sent, whatever lands on the remote.
C26_FailedTestStartsNothing ==
    <<"main", NoRepo, "connect">> \in faulted
        => /\ main = "exited"
           /\ monitor.threads = {}
           /\ monitor.starts = 0
           /\ \A p \in Procs : th[p] = Idle
           /\ adds = 0
           /\ repositories = <<>>
           /\ commit_history = EmptyBag
           /\ notified = EmptyBag
           /\ summaries = EmptyBag

\* the connection test failed, and a commit has landed on a remote since
C26_Witness ==
    /\ <<"main", NoRepo, "connect">> \in faulted
    /\ main = "exited"
    /\ \E r \in Repos : remote[r] # {}

\* thread p sends the k-th individual message of a batch in this step
SendsCommit(p, k) ==
    /\ th[p].pc = "send"
    /\ th[p].i = k
    /\ k <= Min(Len(th[p].new_commits), NOTIFY_CAP)
    /\ notified' # notified

\* C27: within one batch the individual messages to a subscriber go out by
\* descending commit date: the k-th message carries a commit whose date is
\* not above that of the message before it; and of a batch of more than
\* NOTIFY_CAP commits the ones sent individually are NOTIFY_CAP commits with
\* the greatest dates, every commit left to the summary being no newer.
C27_NewestFirstAndTopFive ==
    [][\A k \in 1..NOTIFY_CAP :
          SendsCommit("timer", k)
              => LET t == th["timer"]
                     c == t.subscribers[t.si]
                 IN  /\ notified' = notified (+) SetToBag({<<c, t.cur, t.new_commits[k].sha>>})
                     /\ k > 1 => t.new_commits[k].date <= t.new_commits[k - 1].date
                     /\ \A j \in (NOTIFY_CAP + 1)..Len(t.new_commits) :
                           t.new_commits[j].date <= t.new_commits[k].date]_vars

\* the fifth individual message of a batch of more than NOTIFY_CAP commits
\* with different dates is about to go to the second subscriber
C27_Witness ==
    /\ th["timer"].pc = "send"
    /\ th["timer"].i = NOTIFY_CAP
    /\ th["timer"].si = 2
    /\ Len(th["timer"].new_commits) > NOTIFY_CAP
    /\ \E x, y \in Range(th["timer"].new_commits) : x.date < y.date

\* C28: the watermark date of a repository never decreases: whenever a step
\* replaces a stored watermark date by another, the new date is not below the
\* old one.
C28_WatermarkDateMonotonic ==
    [][\A r \in Repos :
          (WatermarkDate(r) # NULL /\ WatermarkDate(r)' # NULL)
              => WatermarkDate(r)' >= WatermarkDate(r)]_vars

\* C29: an /add of A by Y does not make X, already subscribed to A, miss a
\* commit: every commit on the remote is eventually handed to the sink for X
\* (in a message of its own or under a summary) by a check, as long as no
\* fetch, lookup or send fails.
C29_AddKeepsExistingSubscribers ==
    \A sha \in Shas :
        (\E c \in remote["A"] : c.sha = sha)
            ~> (Attempted("X", sha) \/ faulted # {})

\* chat c was sent the commit sha of r in a message of its own, or a summary
\* count for r
Reported(c, r, sha) ==
    \/ CopiesIn(<<c, r, sha>>, notified) > 0
    \/ \E k \in BagToSet(summaries) : k[1] = c /\ k[2] = r

\* C30: no commit is skipped for good by the page limit: every commit on the
\* remote, also when more than PER_PAGE landed between two checks, is
\* eventually recorded in the commit log and reported to the subscriber (in a
\* message of its own or in a summary count), as long as no fetch, lookup or
\* send fails.
C30_NoCommitSkippedByPageLimit ==
    <>(\/ \A c \in remote["A"] :
             /\ is_commit_logged(commit_history, "A", c.sha)
             /\ Reported("X", "A", c.sha)
       \/ faulted # {})

\* thread p is in the fan-out of process_new_commits, past both store writes
Notifying(p) == th[p].pc \in {"subs", "lang", "send"}

\* C31: no message is sent for a commit before the commit is recorded: while
\* a check is in its fan-out, every commit of its batch is in the commit log
\* and the repository's watermark is the newest commit of that batch; and
\* every commit ever passed to the formatter is in the commit log.
C31_RecordedBeforeNotified ==
    /\ \A p \in {"timer", "cmd"} :
          Notifying(p)
              => /\ \A c \in Range(th[p].new_commits) :
                       is_commit_logged(commit_history, th[p].cur, c.sha)
                 /\ Watermark(th[p].cur) = LatestCommit(th[p].new_commits).sha
                 /\ WatermarkDate(th[p].cur) = LatestCommit(th[p].new_commits).date
    /\ \A n \in BagToSet(notified) : is_commit_logged(commit_history, n[2], n[3])

\* a batch of two commits is being sent, after an earlier store error
C31_Witness ==
    /\ th["timer"].pc = "send"
    /\ th["timer"].i = 2
    /\ Len(th["timer"].new_commits) = 2
    /\ \E f \in faulted : f[3] = "store"

\* C32: a subscriber is never sent a commit that was on the remote when its
\* /add command ran, whether the fetch of that command succeeded or not.
\* Every commit of the remote was there before the first /add, so no commit
\* of the remote is passed to the formatter for anyone and no summary is sent.
C32_NothingOldNotified ==
    /\ \A n \in BagToSet(notified) : \A c \in remote[n[2]] : c.sha # n[3]
    /\ summaries = EmptyBag

\* chat c has a row for repository r
Subscribed(c, r) ==
    \E k \in 1..Len(repositories) :
        repositories[k].chat_id = c /\ repositories[k].repo_full_name = r

\* C33: a chat whose subscription to a repository has been removed (it has
\* no row for it) is in no subscriber list loaded afterwards, messages of a
\* check go only to the chats of the list it loaded, for the repository it
\* checks; and a sweep that starts when a repository has no row does not
\* check that repository.
C33_RemovedIsNotNotified ==
    [][\A p \in {"timer", "cmd"} :
          /\ (th[p].pc = "subs" /\ th'[p] # th[p] /\ ~CrashStep)
                => \A c \in Chats :
                      ~Subscribed(c, th[p].cur)
                          => /\ c \notin Range(th'[p].subscribers)
                             /\ \A r \in Repos : \A sha \in Shas :
                                   CopiesIn(<<c, r, sha>>, notified')
                                       = CopiesIn(<<c, r, sha>>, notified)
          /\ (th[p].pc = "send" /\ th'[p] # th[p] /\ ~CrashStep)
                => \A c \in Chats, r \in Repos :
                      (c \notin Range(th[p].subscribers) \/ r # th[p].cur)
                          => /\ \A sha \in Shas :
                                   CopiesIn(<<c, r, sha>>, notified')
                                       = CopiesIn(<<c, r, sha>>, notified)
                             /\ \A n \in 1..MaxBatch :
                                   CopiesIn(<<c, r, n>>, summaries')
                                       = CopiesIn(<<c, r, n>>, summaries)
          /\ (th[p].pc = "idle" /\ th'[p].pc = "getdate")
                => \A r \in Repos :
                      (\A c \in Chats : ~Subscribed(c, r))
                          => r # th'[p].cur /\ r \notin Range(th'[p].queue)]_vars

\* a check of a repository has loaded a subscriber list without a chat that
\* was sent a commit of that repository before and has no row for it now
C33_Witness ==
    \E c \in Chats :
        /\ th["timer"].pc = "send"
        /\ c \notin Range(th["timer"].subscribers)
        /\ ~Subscribed(c, th["timer"].cur)
        /\ \E sha \in Shas : CopiesIn(<<c, th["timer"].cur, sha>>, notified) > 0

\* C34: the stored language of a chat that has a row in users changes only
\* in a step of the set-language button handler for that chat; add_user and
\* add_repository leave the row of an existing chat as it is, and no step
\* removes a row from users.
C34_LocaleChangesOnlyBySetLocale ==
    [][\A c \in Callers :
          users[c] # NoUser
              => /\ users'[c] # NoUser
                 /\ users'[c] # users[c] => HandleCallback(c, users'[c])]_vars

\* X, whose language was set to "fa", has just had add_repository run for it
C34_Witness ==
    /\ th["cmd"].pc = "add_fetch"
    /\ Len(repositories) = 1
    /\ repositories[1].chat_id = "X"
    /\ users["X"] = "fa"

\* a step of a handler serving a chat that is not in Config.ADMIN_CHAT_ID: a
\* command, or a press of a set-language button
StrangerStep ==
    \E c \in Callers \ Chats :
        \/ HandleDenied(c)
        \/ \E language \in Langs : HandleCallback(c, language)

\* C35: a command or a callback of a chat that is not on the allow-list
\* leaves every table as it was (users and their languages, subscriptions,
\* watermarks, commit records) and starts no check.
C35_StrangerChangesNothing ==
    [][StrangerStep => (users' = users /\ store' = store /\ th' = th)]_vars

====
